---- MODULE Spec2Model ----
(***************************************************************************)
(* FFmpeg-GUI: the job supervisor of src/main.rs (MyApp::run and           *)
(* MyApp::stop_ffmpeg with the background threads they spawn), the shared  *)
(* state of src/app_state.rs and the helpers of src/ffmpeg_utils.rs.       *)
(*                                                                         *)
(* Threads: the caller (the interactive thread, which executes run and     *)
(* stop_ffmpeg), one supervising thread and one stderr reader per accepted *)
(* start, one kill thread per stop_ffmpeg, and the external processes.     *)
(* Every access to a lock-guarded field is one step; a thread's local      *)
(* computation is folded into the step that follows it.                    *)
(***************************************************************************)
EXTENDS Integers, Sequences, FiniteSets, TLC

\* ------------------------------------------------------------------ bounds
MaxJobs == 2          \* accepted starts explored
MaxCancels == 2       \* stop_ffmpeg calls explored
MaxLines == 2         \* stderr lines the external processes emit in total
MaxRejects == 1       \* rejected starts explored
MaxEdits == 2         \* changes of the input field explored
MaxProbes == 2        \* probes explored
MaxClears == 1        \* Clear Log clicks explored
MaxSets == 3          \* settings changes explored
MaxEvents == 5        \* edits, probes, settings changes, starts, cancels, clears and
                      \* stderr lines explored in one behaviour
Full == 2             \* fixed-point resolution of progress: Full stands for 1.0

Jobs == 1..MaxJobs
Cancels == 1..MaxCancels

\* ------------------------------------------------------------------- paths
\* A path is its parent directory, its file stem and its extension.  The stem
\* is a sequence of tokens: "(", ")", " ", a run of digits, or a run of other
\* characters.  The empty string is EmptyPath; a path with an empty stem has
\* no file name (Path::file_stem is None).
EmptyPath == [dir |-> "", stem |-> <<>>, ext |-> ""]
AbsInput == [dir |-> "/v", stem |-> <<"in">>, ext |-> "mov"]
RelInput == [dir |-> "", stem |-> <<"in">>, ext |-> "mov"]
GoneInput == [dir |-> "/v", stem |-> <<"gone">>, ext |-> "mov"]

\* what the user may type into or pick for the input field
InputChoices == {EmptyPath, AbsInput, RelInput, GoneInput}
\* files present before any job has run, and the directories that exist
InitialFiles == {AbsInput, RelInput}
ExistingDirs == {"/v"}

\* the root directory: it exists and has no file name
RootDir == [dir |-> "/", stem |-> <<>>, ext |-> ""]
\* /v/clip<tokens>.mp4
Clip(tokens) == [dir |-> "/v", stem |-> <<"clip">> \o tokens, ext |-> "mp4"]
Counter(n) == <<"(", ToString(n), ")">>
\* what the user may type into or pick for the output field
OutputChoices == {RootDir, Clip(<<>>), Clip(Counter(2))}
\* in-Audio.mp3 in the working directory, the default output of RelInput
InAudio == [dir |-> "", stem |-> <<"in", "-Audio">>, ext |-> "mp3"]
\* the output files that may be present when the program starts
FileStates ==
    {InitialFiles \cup X :
        X \in {{}, {Clip(<<>>), InAudio},
               {Clip(<<>>), Clip(Counter(2)), Clip(Counter(1) \o <<" ">> \o Counter(2))},
               {Clip(<<>>), Clip(Counter(1)), Clip(Counter(2)), Clip(Counter(2) \o <<"x">>),
                Clip(<<"(", ")">>)}}}

\* Path::exists on a file path / on a parent directory ("" does not exist)
Exists(p, fs) == p = RootDir \/ p \in fs
DirExists(d) == d \in ExistingDirs

\* the runs of digits: chars().all(|c| c.is_digit(10)) holds of these tokens
DigitRuns == {ToString(n) : n \in 0..99}

\* str::rfind and str::find from a position, on tokens; 0 stands for None
RFind(s, t) ==
    LET I == {i \in DOMAIN s : s[i] = t}
    IN IF I = {} THEN 0 ELSE CHOOSE i \in I : \A k \in I : k <= i
FindFrom(s, from, t) ==
    LET I == {i \in DOMAIN s : i >= from /\ s[i] = t}
    IN IF I = {} THEN 0 ELSE CHOOSE i \in I : \A k \in I : i <= k

\* str::trim
RECURSIVE Trim(_)
Trim(s) ==
    IF s = <<>> THEN s
    ELSE IF Head(s) = " " THEN Trim(Tail(s))
    ELSE IF s[Len(s)] = " " THEN Trim(SubSeq(s, 1, Len(s) - 1))
    ELSE s

\* unique_path, lines 18-25: the stem is cut at its last "(" when the text
\* between that "(" and the next ")" is all digits
StripCounter(stem) ==
    LET pos == RFind(stem, "(")
        end_pos == IF pos = 0 THEN 0 ELSE FindFrom(stem, pos, ")")
    IN IF pos # 0 /\ end_pos # 0
          /\ \A i \in (pos + 1)..(end_pos - 1) : stem[i] \in DigitRuns
       THEN Trim(SubSeq(stem, 1, pos - 1))
       ELSE stem

\* the stem followed by "(i)"
Numbered(p, stem, i) == [p EXCEPT !.stem = stem \o <<"(", ToString(i), ")">>]

\* unique_path, lines 28-38: the first of stem(1), stem(2), ... that does not
\* exist
RECURSIVE FirstFree(_, _, _, _)
FirstFree(p, stem, i, fs) ==
    LET candidate == Numbered(p, stem, i)
    IN IF ~Exists(candidate, fs) THEN candidate ELSE FirstFree(p, stem, i + 1, fs)

\* the call does not return: path.file_stem().unwrap() panics on None
Panicked == [dir |-> "", stem |-> <<>>, ext |-> "panicked"]

\* unique_path appending "(1)" to the stem of an existing path, with neither
\* the stripping of lines 18-25 nor the test of line 36
unique_pathFirstCandidate(p, fs) ==
    IF ~Exists(p, fs) THEN p
    ELSE IF p.stem = <<>> THEN Panicked
    ELSE Numbered(p, p.stem, 1)

\* ffmpeg_utils::unique_path
unique_path(p, fs) ==
    IF ~Exists(p, fs) THEN p
    ELSE IF p.stem = <<>> THEN Panicked
    ELSE FirstFree(p, StripCounter(p.stem), 1, fs)

\* ---------------------------------------------------------------- settings
FunctionTypes == {"ExtractAudio", "CompressVideo", "ConvertToMp4"}
AudioFormats == {"MP3", "WAV", "FLAC", "AAC", "OPUS"}
OutputFormats == {"Mp4", "Mkv"}
FrameRateModes == {"CFR", "VFR"}

\* AudioFormat::ext and OutputFormat::ext
AudioExt(f) ==
    CASE f = "MP3" -> "mp3" [] f = "WAV" -> "wav" [] f = "FLAC" -> "flac"
      [] f = "AAC" -> "m4a" [] f = "OPUS" -> "opus"
OutputExt(f) == IF f = "Mp4" THEN "mp4" ELSE "mkv"

\* MyApp::default, the settings fields; frame_rate is in thousandths
DefaultOpts ==
    [selected_function |-> "ExtractAudio", output_format |-> "Mp4",
     audio_format |-> "MP3", crf |-> 28, video_bitrate |-> 2000,
     framerate_mode |-> "CFR", use_crf |-> TRUE, encoding_preset |-> "medium",
     frame_rate |-> 30000, original_fps |-> 30000, audio_bitrate |-> 192,
     audio_quality |-> 4, use_audio_quality |-> TRUE]

\* the extension of the selected function and format
CurrentExt(o) ==
    IF o.selected_function = "ExtractAudio"
    THEN AudioExt(o.audio_format) ELSE OutputExt(o.output_format)

\* the suffix default_output appends to the stem
Suffix(o) ==
    CASE o.selected_function = "ExtractAudio" -> "-Audio"
      [] o.selected_function = "CompressVideo" -> "-Compressed"
      [] o.selected_function = "ConvertToMp4" -> "-Converted"

\* a stem as text
RECURSIVE Stem(_)
Stem(s) == IF s = <<>> THEN "" ELSE Head(s) \o Stem(Tail(s))

\* Path::display().to_string(): a path as the text stored in a field
PathStr(p) ==
    (IF p.dir = "" THEN "" ELSE IF p.dir = "/" THEN "/" ELSE p.dir \o "/")
    \o Stem(p.stem) \o (IF p.ext = "" THEN "" ELSE "." \o p.ext)

\* default_output without unique_path
default_outputUnchecked(o, input, fs) ==
    IF input.stem = <<>> THEN EmptyPath
    ELSE [dir |-> input.dir, stem |-> input.stem \o <<Suffix(o)>>, ext |-> CurrentExt(o)]

\* MyApp::default_output
default_output(o, input, fs) ==
    IF input.stem = <<>> THEN EmptyPath
    ELSE unique_path([dir |-> input.dir, stem |-> input.stem \o <<Suffix(o)>>,
                      ext |-> CurrentExt(o)], fs)

\* MyApp::update_command, the destination-path part
update_command(o, input, output, fs) ==
    IF output # EmptyPath
    THEN LET new_path == [output EXCEPT !.ext = CurrentExt(o)]
         IN IF Exists(new_path, fs) THEN unique_path(new_path, fs) ELSE new_path
    ELSE default_output(o, input, fs)

\* format!("{:.3}", x) of a value held in thousandths
Pad3(n) == IF n < 10 THEN "00" \o ToString(n)
           ELSE IF n < 100 THEN "0" \o ToString(n) ELSE ToString(n)
Fmt3(x) == ToString(x \div 1000) \o "." \o Pad3(x % 1000)
\* format!("{k}k")
Kbps(k) == ToString(k) \o "k"

\* ExtractAudioCodec without the sample rate of WAV
ExtractAudioCodecNoRate(o) ==
    CASE o.audio_format = "MP3" ->
            <<"-c:a", "libmp3lame">> \o
            (IF o.use_audio_quality
             THEN <<"-q:a", ToString(o.audio_quality)>>
             ELSE <<"-b:a", Kbps(o.audio_bitrate)>>)
      [] o.audio_format = "OPUS" ->
            <<"-c:a", "libopus", "-b:a", Kbps(o.audio_bitrate), "-strict", "experimental">>
      [] o.audio_format = "AAC" ->
            <<"-c:a", "aac", "-b:a", Kbps(o.audio_bitrate), "-strict", "experimental">>
      [] o.audio_format = "FLAC" ->
            <<"-c:a", "flac", "-compression_level", ToString(o.audio_quality)>>
      [] o.audio_format = "WAV" ->
            <<"-c:a", "pcm_s16le">>

\* build_command, lines 150-207: the codec block of ExtractAudio
ExtractAudioCodec(o) ==
    CASE o.audio_format = "MP3" ->
            <<"-c:a", "libmp3lame">> \o
            (IF o.use_audio_quality
             THEN <<"-q:a", ToString(o.audio_quality)>>
             ELSE <<"-b:a", Kbps(o.audio_bitrate)>>)
      [] o.audio_format = "OPUS" ->
            <<"-c:a", "libopus", "-b:a", Kbps(o.audio_bitrate), "-strict", "experimental">>
      [] o.audio_format = "AAC" ->
            <<"-c:a", "aac", "-b:a", Kbps(o.audio_bitrate), "-strict", "experimental">>
      [] o.audio_format = "FLAC" ->
            <<"-c:a", "flac", "-compression_level", ToString(o.audio_quality)>>
      [] o.audio_format = "WAV" ->
            <<"-c:a", "pcm_s16le", "-ar", "44100">>

\* build_command, lines 258-318: the audio block of CompressVideo
CompressVideoAudio(o) ==
    <<"-c:a">> \o
    CASE o.audio_format = "MP3" ->
            <<"libmp3lame">> \o
            (IF o.use_audio_quality
             THEN <<"-q:a", ToString(o.audio_quality)>>
             ELSE <<"-b:a", Kbps(o.audio_bitrate)>>)
      [] o.audio_format = "OPUS" ->
            <<"libopus", "-b:a", Kbps(o.audio_bitrate),
              "-compression_level", ToString(o.audio_quality), "-strict", "experimental">>
      [] o.audio_format = "AAC" ->
            <<"aac", "-b:a", Kbps(o.audio_bitrate), "-strict", "experimental">>
      [] o.audio_format = "FLAC" ->
            <<"flac", "-compression_level", ToString(o.audio_quality),
              "-strict", "experimental">>
      [] o.audio_format = "WAV" ->
            <<"pcm_s16le", "-ar", "44100">>

\* CompressVideoVideo choosing the quality flag by use_crf alone
CompressVideoVideoCrfOnly(o) ==
    <<"-c:v", "libx264">> \o
    (IF o.use_crf
     THEN <<"-crf", ToString(o.crf)>>
     ELSE <<"-b:v", Kbps(o.video_bitrate)>>) \o
    <<"-preset", o.encoding_preset>> \o
    (IF o.framerate_mode = "CFR"
     THEN <<"-r", Fmt3(o.frame_rate)>>
     ELSE <<"-vsync", "vfr">>)

\* CompressVideoVideo emitting the frame rate in both modes
CompressVideoVideoAlwaysRate(o) ==
    <<"-c:v", "libx264">> \o
    (IF o.use_crf /\ o.framerate_mode = "CFR"
     THEN <<"-crf", ToString(o.crf)>>
     ELSE <<"-b:v", Kbps(o.video_bitrate)>>) \o
    <<"-preset", o.encoding_preset>> \o
    <<"-r", Fmt3(o.frame_rate)>> \o
    (IF o.framerate_mode = "CFR" THEN <<>> ELSE <<"-vsync", "vfr">>)

\* build_command, lines 219-256: the video block of CompressVideo
CompressVideoVideo(o) ==
    <<"-c:v", "libx264">> \o
    (IF o.use_crf /\ o.framerate_mode = "CFR"
     THEN <<"-crf", ToString(o.crf)>>
     ELSE <<"-b:v", Kbps(o.video_bitrate)>>) \o
    <<"-preset", o.encoding_preset>> \o
    (IF o.framerate_mode = "CFR"
     THEN <<"-r", Fmt3(o.frame_rate)>>
     ELSE <<"-vsync", "vfr">>)

\* build_command whose remux vector lacks the overwrite flag
build_commandNoOverwrite(o, input, output_field, fs) ==
    LET output == IF output_field = EmptyPath
                  THEN PathStr(default_output(o, input, fs))
                  ELSE PathStr(output_field)
    IN <<"-i", PathStr(input)>> \o
       CASE o.selected_function = "ExtractAudio" ->
               <<"-vn", "-sn", "-map", "0:a">> \o ExtractAudioCodec(o) \o <<"-y", output>>
         [] o.selected_function = "CompressVideo" ->
               <<"-map", "0">> \o CompressVideoVideo(o) \o CompressVideoAudio(o)
                   \o <<"-c:s", "copy", "-y", output>>
         [] o.selected_function = "ConvertToMp4" ->
               <<"-map", "0", "-c", "copy", output>>

\* build_command whose remux vector carries the preset
build_commandRemuxPreset(o, input, output_field, fs) ==
    LET output == IF output_field = EmptyPath
                  THEN PathStr(default_output(o, input, fs))
                  ELSE PathStr(output_field)
    IN <<"-i", PathStr(input)>> \o
       CASE o.selected_function = "ExtractAudio" ->
               <<"-vn", "-sn", "-map", "0:a">> \o ExtractAudioCodec(o) \o <<"-y", output>>
         [] o.selected_function = "CompressVideo" ->
               <<"-map", "0">> \o CompressVideoVideo(o) \o CompressVideoAudio(o)
                   \o <<"-c:s", "copy", "-y", output>>
         [] o.selected_function = "ConvertToMp4" ->
               <<"-map", "0", "-c", "copy", "-preset", o.encoding_preset, "-y", output>>

\* MyApp::build_command
build_command(o, input, output_field, fs) ==
    LET output == IF output_field = EmptyPath
                  THEN PathStr(default_output(o, input, fs))
                  ELSE PathStr(output_field)
    IN <<"-i", PathStr(input)>> \o
       CASE o.selected_function = "ExtractAudio" ->
               <<"-vn", "-sn", "-map", "0:a">> \o ExtractAudioCodec(o) \o <<"-y", output>>
         [] o.selected_function = "CompressVideo" ->
               <<"-map", "0">> \o CompressVideoVideo(o) \o CompressVideoAudio(o)
                   \o <<"-c:s", "copy", "-y", output>>
         [] o.selected_function = "ConvertToMp4" ->
               <<"-map", "0", "-c", "copy", "-y", output>>

\* Vec::join(" ")
RECURSIVE Join(_)
Join(v) ==
    IF v = <<>> THEN ""
    ELSE IF Len(v) = 1 THEN v[1] ELSE v[1] \o " " \o Join(Tail(v))

\* the preview command update_command stores, line 126
preview_command(o, input, output, fs) == Join(build_command(o, input, output, fs))

\* ---------------------------------------------------------------- timecode
\* A token is the sequence of its ':'-separated segments; a segment is the
\* result of parse::<f32> on it, a time being held in hundredths of a second.
\* The f32 value NaN, which parse::<f32> returns for "nan"; every other value
\* of the model is a natural number.
NaN == -1
Seg(n) == [ok |-> TRUE, val |-> n]
BadSeg == [ok |-> FALSE, val |-> 0]
NanSeg == [ok |-> TRUE, val |-> NaN]
SegVal(s) == IF s.ok THEN s.val ELSE 0

\* parse_timecode weighting the hours like the minutes
parse_timecodeMinutes(tc) ==
    IF Len(tc) = 3
    THEN IF \E i \in 1..3 : SegVal(tc[i]) = NaN
         THEN NaN
         ELSE SegVal(tc[1]) * 60 + SegVal(tc[2]) * 60 + SegVal(tc[3])
    ELSE 0

\* ffmpeg_utils::parse_timecode; a sum with a NaN term is NaN
parse_timecode(tc) ==
    IF Len(tc) = 3
    THEN IF \E i \in 1..3 : SegVal(tc[i]) = NaN
         THEN NaN
         ELSE SegVal(tc[1]) * 3600 + SegVal(tc[2]) * 60 + SegVal(tc[3])
    ELSE 0

\* a stderr line: whether it contains "time=", and the token that follows
NoLine == [time |-> FALSE, tok |-> <<>>]
TextLine == [time |-> FALSE, tok |-> <<BadSeg>>]
\* the token after "time=", "00:00:00.00" when nothing follows
TokenOf(line) == IF line.tok = <<>> THEN <<Seg(0), Seg(0), Seg(0)>> ELSE line.tok
\* a line with "time=00:00:<s>.00"
TimeLine(s) == [time |-> TRUE, tok |-> <<Seg(0), Seg(0), Seg(s * 100)>>]
NaLine == [time |-> TRUE, tok |-> <<BadSeg>>]
NanLine == [time |-> TRUE, tok |-> <<NanSeg, Seg(0), Seg(0)>>]
StderrLines == {TextLine, TimeLine(2), NaLine, NanLine}

Min(a, b) == IF a < b THEN a ELSE b
Max(a, b) == IF a < b THEN b ELSE a

\* (current_time / duration).clamp(0.0, 1.0), in units of 1/Full; f32::clamp
\* of NaN is NaN
ProgressOf(line, dur) ==
    LET current_time == parse_timecode(TokenOf(line))
    IN IF current_time = NaN THEN NaN
       ELSE Max(0, Min(Full, (current_time * Full) \div (dur * 100)))

\* ------------------------------------------------------------------- probe
\* what ffprobe reports for a file: its duration in whole seconds (0: shorter
\* than a second) and its frame rate in thousandths
FileDuration(p) == IF p = AbsInput THEN 3 ELSE 0
FileFps(p) == IF p = AbsInput THEN 30000 ELSE 25000
\* the two ffprobe calls: the duration is parsed, is not parsable, or the tool
\* could not be run; the frame rate is parsed or not
ProbeOutcomes ==
    {[dur |-> "ok", fps |-> "ok"], [dur |-> "ok", fps |-> "default"],
     [dur |-> "unparsable", fps |-> "ok"], [dur |-> "unparsable", fps |-> "default"],
     [dur |-> "failed", fps |-> "default"]}

VARIABLES
    input_path, output_path, duration,   \* MyApp fields of the caller thread
    files,                               \* the files that exist
    running, progress, output_log,       \* the RwLock-guarded fields
    child, lockOwner,                    \* Mutex<Option<Child>> and its holder
    upc, ujob,                           \* caller: position in run, job being started
    nStart, nCancel, nReject, nEdit,     \* calls made so far
    tpc, jdur, jout,                     \* supervising threads and their captures
    rpc, rline,                          \* stderr readers
    proc, reaped, pipe, emitted,         \* external processes and their stderr
    cpc, ckid, cres,                     \* kill threads
    kreq, kprog,                         \* history: the slot and progress when stop_ffmpeg was called
    opts, last_command,                  \* MyApp settings fields and the preview command
    nProbe, nClear, nSet,                \* probes, Clear Log clicks and settings changes so far
    probedSel,                           \* history: the probe has run since the input was last selected
    unpainted                            \* history: writes made and not yet followed by a repaint request

vars == <<input_path, output_path, duration, files, running, progress,
          output_log, child, lockOwner, upc, ujob, nStart, nCancel, nReject, nEdit,
          tpc, jdur, jout, rpc, rline, proc, reaped, pipe, emitted, cpc, ckid, cres, kreq, kprog,
          opts, last_command, nProbe, nClear, nSet, probedSel, unpainted>>

cfgVars == <<input_path, output_path, duration>>
callVars == <<upc, ujob, nStart, nCancel, nReject, nEdit>>
superVars == <<tpc, jdur, jout>>
readVars == <<rpc, rline>>
procVars == <<proc, reaped, pipe, emitted>>
killVars == <<cpc, ckid, cres, kreq, kprog>>
uiVars == <<opts, last_command, nProbe, nClear, nSet, probedSel>>

None == 0
\* the events counted against MaxEvents
Events == nStart + nCancel + nReject + emitted + nEdit + nProbe + nClear + nSet
Free == <<"free", 0>>
Entry(kind, j) == [kind |-> kind, job |-> j, text |-> NoLine]
Push(kind, j) == Append(output_log, Entry(kind, j))
T(j) == <<"T", j>>
K(c) == <<"K", c>>

\* MyApp::default and main(): the state after construction
Init ==
    /\ input_path = EmptyPath
    /\ output_path = EmptyPath
    /\ duration = 1
    /\ files = InitialFiles
    /\ running = FALSE
    /\ progress = 0
    /\ output_log = <<>>
    /\ child = None
    /\ lockOwner = Free
    /\ upc = "idle"
    /\ ujob = 0
    /\ nStart = 0
    /\ nCancel = 0
    /\ nReject = 0
    /\ nEdit = 0
    /\ tpc = [j \in Jobs |-> "none"]
    /\ jdur = [j \in Jobs |-> 1]
    /\ jout = [j \in Jobs |-> EmptyPath]
    /\ rpc = [j \in Jobs |-> "none"]
    /\ rline = [j \in Jobs |-> NoLine]
    /\ proc = [j \in Jobs |-> "none"]
    /\ reaped = [j \in Jobs |-> FALSE]
    /\ pipe = [j \in Jobs |-> <<>>]
    /\ emitted = 0
    /\ cpc = [c \in Cancels |-> "none"]
    /\ ckid = [c \in Cancels |-> None]
    /\ cres = [c \in Cancels |-> "none"]
    /\ kreq = [c \in Cancels |-> None]
    /\ kprog = [c \in Cancels |-> 0]
    /\ opts = DefaultOpts
    /\ last_command = preview_command(DefaultOpts, EmptyPath, EmptyPath, InitialFiles)
    /\ nProbe = 0
    /\ nClear = 0
    /\ nSet = 0
    /\ probedSel = FALSE
    /\ unpainted = {}

\* ---------------------------------------------------- caller: MyApp::update
\* update, line 186: the condition under which the top of a frame probes
Triggered == duration = 1 /\ Exists(input_path, files)

\* the caller handles a widget event of a frame: either the frame's probe has
\* run, or the condition of line 186 is false and the top of the frame does
\* nothing
InFrame == upc = "frame" \/ (upc = "idle" /\ ~Triggered)

\* ProbedDuration without duration.max(1.0)
ProbedDurationUnclamped(o) ==
    CASE o.dur = "ok" -> FileDuration(input_path)
      [] o.dur = "unparsable" -> duration
      [] o.dur = "failed" -> 1

\* probe_duration, lines 693-711: the duration after the first ffprobe call
ProbedDuration(o) ==
    CASE o.dur = "ok" -> Max(FileDuration(input_path), 1)
      [] o.dur = "unparsable" -> duration
      [] o.dur = "failed" -> 1

\* probe_duration, lines 693-754: the lines it appends to the log
ProbeLog(o) ==
    <<Entry("probing", 0)>>
    \o (CASE o.dur = "ok" -> <<Entry("file_duration", 0)>>
          [] o.dur = "unparsable" -> <<>>
          [] o.dur = "failed" -> <<Entry("duration_default", 0)>>)
    \o <<Entry(IF o.fps = "ok" THEN "original_fps" ELSE "default_fps", 0)>>

\* probe_duration, lines 713-754: the frame rate fields after the second call
ProbedOpts(o) ==
    IF o.fps = "ok"
    THEN [opts EXCEPT !.original_fps = FileFps(input_path),
                      !.frame_rate = Min(FileFps(input_path), 60000)]
    ELSE [opts EXCEPT !.original_fps = 30000, !.frame_rate = 30000]

\* update, lines 186-188: the top of a frame whose condition holds; the probe
\* runs on the caller thread
Redraw(o) ==
    /\ upc = "idle" /\ Triggered
    /\ nProbe < MaxProbes /\ Events < MaxEvents
    /\ duration' = ProbedDuration(o)
    /\ opts' = ProbedOpts(o)
    /\ output_log' = output_log \o ProbeLog(o)
    /\ nProbe' = nProbe + 1
    /\ probedSel' = TRUE
    /\ upc' = "frame"
    /\ UNCHANGED <<last_command, nClear, nSet, unpainted, input_path, output_path, files,
                   running, progress, child, lockOwner, ujob, nStart, nCancel, nReject,
                   nEdit, superVars, readVars, procVars, killVars>>

\* update: a frame in which no widget event is handled ends
FrameEnd ==
    /\ upc = "frame"
    /\ upc' = "idle"
    /\ UNCHANGED <<uiVars, unpainted, cfgVars, files, running, progress, output_log,
                   child, lockOwner, ujob, nStart, nCancel, nReject, nEdit,
                   superVars, readVars, procVars, killVars>>

\* update, lines 618-620: the Clear Log button
ClearLog ==
    /\ InFrame
    /\ nClear < MaxClears /\ Events < MaxEvents
    /\ output_log # <<>>
    /\ output_log' = <<>>
    /\ nClear' = nClear + 1
    /\ upc' = "idle"
    /\ UNCHANGED <<opts, last_command, nProbe, nSet, probedSel, unpainted, cfgVars, files,
                   running, progress, child, lockOwner, ujob, nStart, nCancel, nReject,
                   nEdit, superVars, readVars, procVars, killVars>>

\* ------------------------------------------------------- caller: MyApp::run
\* the destination path after lines 58-68: the default when empty, then made
\* unique when it exists
ResolvedOutput ==
    LET out == IF output_path = EmptyPath
               THEN default_output(opts, input_path, files) ELSE output_path
    IN IF Exists(out, files) THEN unique_path(out, files) ELSE out

\* Path::parent of a non-empty path exists (the empty path has no parent, and
\* the check of lines 71-77 is skipped)
ParentOk(p) == p = EmptyPath \/ DirExists(p.dir)

\* run, lines 40-44: a process is already running
StartRejectRunning ==
    /\ InFrame /\ nReject < MaxRejects /\ Events < MaxEvents
    /\ running
    /\ output_log' = Push("already_running", 0)
    /\ nReject' = nReject + 1
    /\ upc' = "idle"
    /\ UNCHANGED <<uiVars, unpainted, cfgVars, files, running, progress, child, lockOwner, ujob,
                   nStart, nCancel, superVars, readVars, procVars, killVars, nEdit>>

\* run, lines 46-55: no input file, or the input file does not exist
StartRejectInput ==
    /\ InFrame /\ nReject < MaxRejects /\ Events < MaxEvents
    /\ ~running
    /\ input_path = EmptyPath \/ ~Exists(input_path, files)
    /\ output_log' = Push(IF input_path = EmptyPath THEN "no_input" ELSE "input_missing", 0)
    /\ nReject' = nReject + 1
    /\ upc' = "idle"
    /\ UNCHANGED <<uiVars, unpainted, cfgVars, files, running, progress, child, lockOwner, ujob,
                   nStart, nCancel, superVars, readVars, procVars, killVars, nEdit>>

\* run, lines 57-77: the destination is resolved and stored, then its
\* directory is found missing
StartRejectOutputDir ==
    /\ InFrame /\ nReject < MaxRejects /\ Events < MaxEvents
    /\ ~running
    /\ input_path # EmptyPath /\ Exists(input_path, files)
    /\ ~ParentOk(ResolvedOutput)
    /\ output_path' = ResolvedOutput
    /\ output_log' = Push("outdir_missing", 0)
    /\ running' = FALSE
    /\ nReject' = nReject + 1
    /\ upc' = "idle"
    /\ UNCHANGED <<uiVars, unpainted, input_path, duration, files, progress, child, lockOwner, ujob,
                   nStart, nCancel, superVars, readVars, procVars, killVars, nEdit>>

\* StartAccept without the check of lines 41-44
StartAcceptUnchecked ==
    /\ InFrame /\ nStart < MaxJobs /\ Events < MaxEvents
    /\ input_path # EmptyPath /\ Exists(input_path, files)
    /\ ParentOk(ResolvedOutput)
    /\ output_path' = ResolvedOutput
    /\ running' = TRUE
    /\ nStart' = nStart + 1
    /\ ujob' = nStart + 1
    /\ upc' = "s81"
    /\ UNCHANGED <<uiVars, unpainted, input_path, duration, files, progress, output_log, child, lockOwner,
                   nCancel, nReject, nEdit, superVars, readVars, procVars, killVars>>

\* run, lines 40-80: every check passes, running is set
StartAccept ==
    /\ InFrame /\ nStart < MaxJobs /\ Events < MaxEvents
    /\ ~running
    /\ input_path # EmptyPath /\ Exists(input_path, files)
    /\ ParentOk(ResolvedOutput)
    /\ output_path' = ResolvedOutput
    /\ running' = TRUE
    /\ nStart' = nStart + 1
    /\ ujob' = nStart + 1
    /\ upc' = "s81"
    /\ UNCHANGED <<uiVars, unpainted, input_path, duration, files, progress, output_log, child, lockOwner,
                   nCancel, nReject, superVars, readVars, procVars, killVars, nEdit>>

\* run, line 81
StartResetProgress ==
    /\ upc = "s81"
    /\ progress' = 0
    /\ upc' = "s82"
    /\ UNCHANGED <<uiVars, unpainted, cfgVars, files, running, output_log, child, lockOwner, ujob,
                   nStart, nCancel, nReject, superVars, readVars, procVars, killVars, nEdit>>

\* run, line 82
StartClearLog ==
    /\ upc = "s82"
    /\ output_log' = <<>>
    /\ upc' = "s88"
    /\ UNCHANGED <<uiVars, unpainted, cfgVars, files, running, progress, child, lockOwner, ujob,
                   nStart, nCancel, nReject, superVars, readVars, procVars, killVars, nEdit>>

\* run, lines 85-99: the destination and the duration are captured, the
\* destination is logged, update_command rewrites the destination field
StartLogOutput ==
    /\ upc = "s88"
    /\ output_log' = Push("outputting_to", ujob)
    /\ jout' = [jout EXCEPT ![ujob] = output_path]
    /\ jdur' = [jdur EXCEPT ![ujob] = duration]
    /\ output_path' = update_command(opts, input_path, output_path, files)
    /\ last_command' = preview_command(opts, input_path, output_path', files)
    /\ upc' = "s103"
    /\ UNCHANGED <<opts, nProbe, nClear, nSet, probedSel, unpainted, input_path, duration, files, running, progress, child, lockOwner,
                   ujob, nStart, nCancel, nReject, tpc, readVars, procVars, killVars, nEdit>>

\* run, lines 103-108: the handle slot is cleared under its lock (the caller
\* waits for the lock), then the supervising thread is spawned
StartClearChild ==
    /\ upc = "s103"
    /\ lockOwner = Free
    /\ child' = None
    /\ tpc' = [tpc EXCEPT ![ujob] = "exec"]
    /\ upc' = "idle"
    /\ UNCHANGED <<uiVars, unpainted, cfgVars, files, running, progress, output_log, lockOwner, ujob,
                   nStart, nCancel, nReject, jdur, jout, readVars, procVars, killVars, nEdit>>

\* ----------------------------------------------- caller: MyApp::stop_ffmpeg
\* stop_ffmpeg, lines 633-645: log, running = false, the kill thread is spawned
Cancel ==
    /\ InFrame /\ nCancel < MaxCancels /\ Events < MaxEvents
    /\ output_log' = Push("stopping", 0)
    /\ running' = FALSE
    /\ upc' = "idle"
    /\ nCancel' = nCancel + 1
    /\ cpc' = [cpc EXCEPT ![nCancel + 1] = "lock"]
    /\ kreq' = [kreq EXCEPT ![nCancel + 1] = child]
    /\ kprog' = [kprog EXCEPT ![nCancel + 1] = progress]
    /\ UNCHANGED <<uiVars, unpainted, cfgVars, files, progress, child, lockOwner, ujob, nStart,
                   nReject, nEdit, superVars, readVars, procVars, ckid, cres>>

\* ------------------------------------------- caller: presentation events
\* update, line 214: the input field is edited
EditInput(p) ==
    /\ InFrame
    /\ nEdit < MaxEdits /\ Events < MaxEvents
    /\ input_path # p
    /\ input_path' = p
    /\ nEdit' = nEdit + 1
    /\ probedSel' = FALSE
    /\ upc' = "idle"
    /\ UNCHANGED <<opts, last_command, nProbe, nClear, nSet, unpainted, output_path, duration,
                   files, running, progress, output_log, child, lockOwner, ujob,
                   nStart, nCancel, nReject, superVars, readVars, procVars, killVars>>

\* update, lines 215-223: a file is picked; the destination is derived anew
BrowseInput(p) ==
    /\ InFrame
    /\ nEdit < MaxEdits /\ Events < MaxEvents
    /\ Exists(p, files)
    /\ input_path' = p
    /\ output_path' = update_command(opts, p, default_output(opts, p, files), files)
    /\ last_command' = preview_command(opts, p, output_path', files)
    /\ nEdit' = nEdit + 1
    /\ probedSel' = (p = input_path /\ probedSel)
    /\ upc' = "idle"
    /\ UNCHANGED <<opts, nProbe, nClear, nSet, unpainted, duration, files, running, progress,
                   output_log, child, lockOwner, ujob, nStart, nCancel, nReject,
                   superVars, readVars, procVars, killVars>>

\* update, lines 246-251: a function radio button is clicked; the destination
\* is derived anew
SelectFunction(f) ==
    /\ InFrame
    /\ nSet < MaxSets /\ Events < MaxEvents
    /\ LET o == [opts EXCEPT !.selected_function = f]
       IN /\ opts' = o
          /\ output_path' = update_command(o, input_path,
                                            default_output(o, input_path, files), files)
          /\ last_command' = preview_command(o, input_path, output_path', files)
    /\ nSet' = nSet + 1
    /\ upc' = "idle"
    /\ UNCHANGED <<nProbe, nClear, probedSel, unpainted, input_path, duration, files,
                   running, progress, output_log, child, lockOwner, ujob, nStart,
                   nCancel, nReject, nEdit, superVars, readVars, procVars, killVars>>

\* FunctionType::show_audio_options
show_audio_options == opts.selected_function \in {"ExtractAudio", "CompressVideo"}

\* update, lines 258-272: an audio format is picked in the combo box
SelectAudioFormat(f) ==
    /\ InFrame
    /\ nSet < MaxSets /\ Events < MaxEvents
    /\ show_audio_options
    /\ opts' = [opts EXCEPT !.audio_format = f]
    /\ nSet' = nSet + 1
    /\ upc' = "idle"
    /\ UNCHANGED <<last_command, nProbe, nClear, probedSel, unpainted, cfgVars, files,
                   running, progress, output_log, child, lockOwner, ujob, nStart,
                   nCancel, nReject, nEdit, superVars, readVars, procVars, killVars>>

\* update, lines 276-282: the VBR / CBR radio buttons of MP3
SelectAudioQualityMode(b) ==
    /\ InFrame
    /\ nSet < MaxSets /\ Events < MaxEvents
    /\ show_audio_options /\ opts.audio_format = "MP3"
    /\ opts' = [opts EXCEPT !.use_audio_quality = b]
    /\ nSet' = nSet + 1
    /\ upc' = "idle"
    /\ UNCHANGED <<last_command, nProbe, nClear, probedSel, unpainted, cfgVars, files,
                   running, progress, output_log, child, lockOwner, ujob, nStart,
                   nCancel, nReject, nEdit, superVars, readVars, procVars, killVars>>

\* update, line 230: the output field is edited
EditOutput(p) ==
    /\ InFrame
    /\ nEdit < MaxEdits /\ Events < MaxEvents
    /\ output_path # p
    /\ output_path' = p
    /\ nEdit' = nEdit + 1
    /\ upc' = "idle"
    /\ UNCHANGED <<uiVars, unpainted, input_path, duration, files, running, progress,
                   output_log, child, lockOwner, ujob, nStart, nCancel, nReject,
                   superVars, readVars, procVars, killVars>>

\* update, lines 231-240: an output file is picked in the save dialog
BrowseOutput(p) ==
    /\ InFrame
    /\ nEdit < MaxEdits /\ Events < MaxEvents
    /\ p # EmptyPath /\ p # RootDir
    /\ output_path' = update_command(opts, input_path, p, files)
    /\ last_command' = preview_command(opts, input_path, output_path', files)
    /\ nEdit' = nEdit + 1
    /\ upc' = "idle"
    /\ UNCHANGED <<opts, nProbe, nClear, nSet, probedSel, unpainted, input_path, duration,
                   files, running, progress, output_log, child, lockOwner, ujob,
                   nStart, nCancel, nReject, superVars, readVars, procVars, killVars>>

\* a widget has stored the settings o and calls update_command
WidgetChanged(o) ==
    /\ InFrame
    /\ nSet < MaxSets /\ Events < MaxEvents
    /\ opts' = o
    /\ output_path' = update_command(o, input_path, output_path, files)
    /\ last_command' = preview_command(o, input_path, output_path', files)
    /\ nSet' = nSet + 1
    /\ upc' = "idle"
    /\ UNCHANGED <<nProbe, nClear, probedSel, unpainted, input_path, duration, files,
                   running, progress, output_log, child, lockOwner, ujob, nStart,
                   nCancel, nReject, nEdit, superVars, readVars, procVars, killVars>>

\* the values the DragValues and buttons are given
AudioQualityChoices == {9}
AudioBitrateChoices == {64}
CrfChoices == {18}
VideoBitrateChoices == {1000}
FrameRateChoices == {23976, 60000}
Presets == {"ultrafast", "medium"}

\* update, lines 284-297, 337-346 and 376-386: the quality / compression level
SetAudioQuality(q) ==
    /\ show_audio_options
    /\ \/ opts.audio_format = "MP3" /\ opts.use_audio_quality
       \/ opts.audio_format \in {"OPUS", "FLAC"}
    /\ q # opts.audio_quality
    /\ WidgetChanged([opts EXCEPT !.audio_quality = q])

\* update, lines 298-308, 310-336 and 348-375: the audio bitrate
SetAudioBitrate(k) ==
    /\ show_audio_options
    /\ \/ opts.audio_format = "MP3" /\ ~opts.use_audio_quality
       \/ opts.audio_format \in {"OPUS", "AAC"}
    /\ k # opts.audio_bitrate
    /\ WidgetChanged([opts EXCEPT !.audio_bitrate = k])

\* FunctionType::show_video_options and show_output_format
show_video_options == opts.selected_function = "CompressVideo"
show_output_format == opts.selected_function # "ExtractAudio"

\* update, lines 400-407: the CFR / VFR radio buttons; VFR forces bitrate mode
\* the frame-rate mode radios without the assignment of line 405
SelectFrameRateModeKeepsCrf(m) ==
    /\ show_video_options
    /\ WidgetChanged([opts EXCEPT !.framerate_mode = m])

SelectFrameRateMode(m) ==
    /\ show_video_options
    /\ WidgetChanged(IF m = "VFR"
                     THEN [opts EXCEPT !.framerate_mode = m, !.use_crf = FALSE]
                     ELSE [opts EXCEPT !.framerate_mode = m])

\* update, lines 413-422: the CRF radio button (enabled in CFR mode only) and
\* the Bitrate radio button
SelectQualityControl(b) ==
    /\ show_video_options
    /\ b => opts.framerate_mode = "CFR"
    /\ WidgetChanged([opts EXCEPT !.use_crf = b])

\* update, lines 426-452: the CRF value
SetCrf(c) ==
    /\ show_video_options
    /\ opts.use_crf /\ opts.framerate_mode = "CFR"
    /\ c # opts.crf
    /\ WidgetChanged([opts EXCEPT !.crf = c])

\* update, lines 453-481: the video bitrate
SetVideoBitrate(k) ==
    /\ show_video_options
    /\ ~(opts.use_crf /\ opts.framerate_mode = "CFR")
    /\ k # opts.video_bitrate
    /\ WidgetChanged([opts EXCEPT !.video_bitrate = k])

\* update, lines 484-533: the frame rate, at most max(original_fps, 60)
SetFrameRate(r) ==
    /\ show_video_options
    /\ opts.framerate_mode = "CFR"
    /\ r <= Max(opts.original_fps, 60000)
    /\ r # opts.frame_rate
    /\ WidgetChanged([opts EXCEPT !.frame_rate = r])

\* update, lines 535-545: the preset combo box; update_command is not called
SelectPreset(s) ==
    /\ InFrame
    /\ nSet < MaxSets /\ Events < MaxEvents
    /\ show_video_options
    /\ s # opts.encoding_preset
    /\ opts' = [opts EXCEPT !.encoding_preset = s]
    /\ nSet' = nSet + 1
    /\ upc' = "idle"
    /\ UNCHANGED <<last_command, nProbe, nClear, probedSel, unpainted, cfgVars, files,
                   running, progress, output_log, child, lockOwner, ujob, nStart,
                   nCancel, nReject, nEdit, superVars, readVars, procVars, killVars>>

\* update, lines 549-558: the output format radio buttons; the destination is
\* derived anew
SelectOutputFormat(f) ==
    /\ InFrame
    /\ nSet < MaxSets /\ Events < MaxEvents
    /\ show_output_format
    /\ LET o == [opts EXCEPT !.output_format = f]
       IN /\ opts' = o
          /\ output_path' = update_command(o, input_path,
                                            default_output(o, input_path, files), files)
          /\ last_command' = preview_command(o, input_path, output_path', files)
    /\ nSet' = nSet + 1
    /\ upc' = "idle"
    /\ UNCHANGED <<nProbe, nClear, probedSel, unpainted, input_path, duration, files,
                   running, progress, output_log, child, lockOwner, ujob, nStart,
                   nCancel, nReject, nEdit, superVars, readVars, procVars, killVars>>

\* -------------------------------- supervising thread of job j (run, 108-180)
\* line 109
SuperLogExec(j) ==
    /\ tpc[j] = "exec"
    /\ output_log' = Push("executing", j)
    /\ tpc' = [tpc EXCEPT ![j] = "spawn"]
    /\ UNCHANGED <<uiVars, unpainted, cfgVars, files, running, progress, child, lockOwner, callVars,
                   jdur, jout, readVars, procVars, killVars>>

\* lines 112-116, Ok: the external process is alive, its pipes are open
SuperSpawn(j) ==
    /\ tpc[j] = "spawn"
    /\ proc' = [proc EXCEPT ![j] = "alive"]
    /\ tpc' = [tpc EXCEPT ![j] = "store"]
    /\ UNCHANGED <<uiVars, unpainted, cfgVars, files, running, progress, output_log, child, lockOwner,
                   callVars, jdur, jout, readVars, reaped, pipe, emitted, killVars>>

\* lines 112-117, Err: expect panics and the thread ends there
SuperSpawnFails(j) ==
    /\ tpc[j] = "spawn"
    /\ tpc' = [tpc EXCEPT ![j] = "panicked"]
    /\ UNCHANGED <<uiVars, unpainted, cfgVars, files, running, progress, output_log, child, lockOwner,
                   callVars, jdur, jout, readVars, procVars, killVars>>

\* lines 120-130: the handle is stored under the lock, the reader is spawned
SuperStore(j) ==
    /\ tpc[j] = "store"
    /\ lockOwner = Free
    /\ child' = j
    /\ rpc' = [rpc EXCEPT ![j] = "read"]
    /\ tpc' = [tpc EXCEPT ![j] = "lock"]
    /\ UNCHANGED <<uiVars, unpainted, cfgVars, files, running, progress, output_log, lockOwner, callVars,
                   jdur, jout, rline, procVars, killVars>>

\* line 159: the lock is taken, and held until line 171
SuperLock(j) ==
    /\ tpc[j] = "lock"
    /\ lockOwner = Free
    /\ lockOwner' = T(j)
    /\ tpc' = [tpc EXCEPT ![j] = "wait"]
    /\ UNCHANGED <<uiVars, unpainted, cfgVars, files, running, progress, output_log, child, callVars,
                   jdur, jout, readVars, procVars, killVars>>

\* lines 160-162: wait() on the process whose handle is in the slot returns
\* once that process has exited; the status line is logged
SuperWait(j) ==
    /\ tpc[j] = "wait"
    /\ child # None
    /\ proc[child] # "alive"
    /\ reaped' = [reaped EXCEPT ![child] = TRUE]
    /\ output_log' = Push("finished_with_status", j)
    /\ tpc' = [tpc EXCEPT ![j] = "outcome"]
    /\ UNCHANGED <<uiVars, unpainted, cfgVars, files, running, progress, child, lockOwner, callVars,
                   jdur, jout, readVars, proc, pipe, emitted, killVars>>

\* line 160, None: the slot is empty, nothing is waited for
SuperNoChild(j) ==
    /\ tpc[j] = "wait"
    /\ child = None
    /\ tpc' = [tpc EXCEPT ![j] = "clear"]
    /\ UNCHANGED <<uiVars, unpainted, cfgVars, files, running, progress, output_log, child, lockOwner,
                   callVars, jdur, jout, readVars, procVars, killVars>>

\* SuperLogOutcome without the lines 163-167
SuperLogOutcomeSilent(j) ==
    /\ tpc[j] = "outcome"
    /\ tpc' = [tpc EXCEPT ![j] = "clear"]
    /\ UNCHANGED <<uiVars, unpainted, cfgVars, files, running, progress, output_log, child,
                   lockOwner, callVars, jdur, jout, readVars, procVars, killVars>>

\* lines 163-167: the line derived from status.success()
SuperLogOutcome(j) ==
    /\ tpc[j] = "outcome"
    /\ output_log' = Push(IF proc[child] = "ok" THEN "saved" ELSE "failed", j)
    /\ tpc' = [tpc EXCEPT ![j] = "clear"]
    /\ UNCHANGED <<uiVars, unpainted, cfgVars, files, running, progress, child, lockOwner, callVars,
                   jdur, jout, readVars, procVars, killVars>>

\* lines 170-171: the slot is cleared and the lock released
SuperClear(j) ==
    /\ tpc[j] = "clear"
    /\ child' = None
    /\ lockOwner' = Free
    /\ tpc' = [tpc EXCEPT ![j] = "mark"]
    /\ UNCHANGED <<uiVars, unpainted, cfgVars, files, running, progress, output_log, callVars,
                   jdur, jout, readVars, procVars, killVars>>

\* line 177
SuperMarkComplete(j) ==
    /\ tpc[j] = "mark"
    /\ running' = FALSE
    /\ unpainted' = unpainted \cup {<<"running", j>>}
    /\ tpc' = [tpc EXCEPT ![j] = "full"]
    /\ UNCHANGED <<uiVars, cfgVars, files, progress, output_log, child, lockOwner, callVars,
                   jdur, jout, readVars, procVars, killVars>>

\* SuperSetFull with line 179 before line 178: the repaint is requested first
SuperSetFullLate(j) ==
    /\ tpc[j] = "full"
    /\ tpc' = [tpc EXCEPT ![j] = "repaint"]
    /\ UNCHANGED <<uiVars, unpainted, cfgVars, files, running, progress, output_log, child,
                   lockOwner, callVars, jdur, jout, readVars, procVars, killVars>>

\* line 178
SuperSetFull(j) ==
    /\ tpc[j] = "full"
    /\ progress' = Full
    /\ unpainted' = unpainted \cup {<<"progress", j>>}
    /\ tpc' = [tpc EXCEPT ![j] = "repaint"]
    /\ UNCHANGED <<uiVars, cfgVars, files, running, output_log, child, lockOwner, callVars,
                   jdur, jout, readVars, procVars, killVars>>

\* line 179: the final repaint is requested; the thread ends
SuperRepaint(j) ==
    /\ tpc[j] = "repaint"
    /\ unpainted' = unpainted \ {<<"running", j>>, <<"progress", j>>}
    /\ tpc' = [tpc EXCEPT ![j] = "done"]
    /\ UNCHANGED <<uiVars, cfgVars, files, running, progress, output_log, child, lockOwner,
                   callVars, jdur, jout, readVars, procVars, killVars>>

\* -------------------------------------- stderr reader of job j (run, 130-156)
\* lines 132-135: the next line is read and appended to the log
ReaderLine(j) ==
    /\ rpc[j] = "read"
    /\ pipe[j] # <<>>
    /\ LET line == Head(pipe[j])
       IN /\ output_log' = Append(output_log, [kind |-> "stderr", job |-> j, text |-> line])
          /\ rline' = [rline EXCEPT ![j] = IF line.time THEN line ELSE NoLine]
          /\ rpc' = [rpc EXCEPT ![j] = IF line.time THEN "progress" ELSE "read"]
    /\ pipe' = [pipe EXCEPT ![j] = Tail(pipe[j])]
    /\ UNCHANGED <<uiVars, unpainted, cfgVars, files, running, progress, child, lockOwner, callVars,
                   superVars, proc, reaped, emitted, killVars>>

\* lines 138-148: the progress of a line that contains "time=" is written
ReaderProgress(j) ==
    /\ rpc[j] = "progress"
    /\ progress' = ProgressOf(rline[j], jdur[j])
    /\ unpainted' = unpainted \cup {<<"reader", j>>}
    /\ rline' = [rline EXCEPT ![j] = NoLine]
    /\ rpc' = [rpc EXCEPT ![j] = "repaint"]
    /\ UNCHANGED <<uiVars, cfgVars, files, running, output_log, child, lockOwner, callVars,
                   superVars, procVars, killVars>>

\* line 151: the repaint is requested
ReaderRepaint(j) ==
    /\ rpc[j] = "repaint"
    /\ unpainted' = unpainted \ {<<"reader", j>>}
    /\ rpc' = [rpc EXCEPT ![j] = "read"]
    /\ UNCHANGED <<uiVars, cfgVars, files, running, progress, output_log, child, lockOwner,
                   callVars, superVars, rline, procVars, killVars>>

\* line 132: the reader is at the end of its stream: the process has exited
\* and the pipe is drained; the loop and the thread end without a further
\* access to the shared state
ReaderAtEof(j) == rpc[j] = "read" /\ pipe[j] = <<>> /\ proc[j] # "alive"

\* ------------------------------------------------- the external process of j
\* it writes a line to its stderr
ProcEmit(j, line) ==
    /\ proc[j] = "alive"
    /\ emitted < MaxLines /\ Events < MaxEvents
    /\ pipe' = [pipe EXCEPT ![j] = Append(pipe[j], line)]
    /\ emitted' = emitted + 1
    /\ UNCHANGED <<uiVars, unpainted, cfgVars, files, running, progress, output_log, child, lockOwner,
                   callVars, superVars, readVars, proc, reaped, killVars>>

\* it creates its output file
ProcCreateOutput(j) ==
    /\ proc[j] = "alive"
    /\ jout[j] # EmptyPath
    /\ ~Exists(jout[j], files)
    /\ files' = files \cup {jout[j]}
    /\ UNCHANGED <<uiVars, unpainted, cfgVars, running, progress, output_log, child, lockOwner,
                   callVars, superVars, readVars, procVars, killVars>>

\* it exits on its own: with success once the output is written, or with failure
ProcExit(j, st) ==
    /\ proc[j] = "alive"
    /\ st = "ok" => Exists(jout[j], files)
    /\ proc' = [proc EXCEPT ![j] = st]
    /\ UNCHANGED <<uiVars, unpainted, cfgVars, files, running, progress, output_log, child, lockOwner,
                   callVars, superVars, readVars, reaped, pipe, emitted, killVars>>

\* --------------------------------------- kill thread c (stop_ffmpeg, 645-680)
\* line 647: the lock is taken, and held until line 667
KillLock(c) ==
    /\ cpc[c] = "lock"
    /\ lockOwner = Free
    /\ lockOwner' = K(c)
    /\ cpc' = [cpc EXCEPT ![c] = "kill"]
    /\ UNCHANGED <<uiVars, unpainted, cfgVars, files, running, progress, output_log, child, callVars,
                   superVars, readVars, procVars, ckid, cres, kreq, kprog>>

\* lines 648, 662-664: the slot is empty; the lock is released
KillNoChild(c) ==
    /\ cpc[c] = "kill"
    /\ child = None
    /\ cres' = [cres EXCEPT ![c] = "nochild"]
    /\ lockOwner' = Free
    /\ cpc' = [cpc EXCEPT ![c] = "lock2"]
    /\ UNCHANGED <<uiVars, unpainted, cfgVars, files, running, progress, output_log, child, callVars,
                   superVars, readVars, procVars, ckid, kreq, kprog>>

\* Child::kill on a handle whose process was already waited for: Ok(()) or
\* Err(InvalidInput), depending on the standard library version
KillResults(j) == IF reaped[j] THEN {"ok", "err"} ELSE {"ok"}

\* lines 648-650: kill() on the process whose handle is in the slot
KillChild(c, res) ==
    /\ cpc[c] = "kill"
    /\ child # None
    /\ res \in KillResults(child)
    /\ ckid' = [ckid EXCEPT ![c] = child]
    /\ proc' = [proc EXCEPT ![child] = IF proc[child] = "alive" THEN "killed" ELSE proc[child]]
    /\ cpc' = [cpc EXCEPT ![c] = IF res = "ok" THEN "log_ok" ELSE "log_err"]
    /\ UNCHANGED <<uiVars, unpainted, cfgVars, files, running, progress, output_log, child, lockOwner,
                   callVars, superVars, readVars, reaped, pipe, emitted, cres, kreq, kprog>>

\* line 652
KillLogOk(c) ==
    /\ cpc[c] = "log_ok"
    /\ output_log' = Push("terminated", ckid[c])
    /\ cpc' = [cpc EXCEPT ![c] = "wait"]
    /\ UNCHANGED <<uiVars, unpainted, cfgVars, files, running, progress, child, lockOwner, callVars,
                   superVars, readVars, procVars, ckid, cres, kreq, kprog>>

\* lines 654-655, 667: the killed process is waited for; the lock is released
KillWait(c) ==
    /\ cpc[c] = "wait"
    /\ proc[ckid[c]] # "alive"
    /\ reaped' = [reaped EXCEPT ![ckid[c]] = TRUE]
    /\ cres' = [cres EXCEPT ![c] = "killed"]
    /\ lockOwner' = Free
    /\ cpc' = [cpc EXCEPT ![c] = "lock2"]
    /\ UNCHANGED <<uiVars, unpainted, cfgVars, files, running, progress, output_log, child, callVars,
                   superVars, readVars, proc, pipe, emitted, ckid, kreq, kprog>>

\* lines 657-660, 667: the kill error is logged; the lock is released
KillLogErr(c) ==
    /\ cpc[c] = "log_err"
    /\ output_log' = Push("kill_error", ckid[c])
    /\ cres' = [cres EXCEPT ![c] = "killerr"]
    /\ lockOwner' = Free
    /\ cpc' = [cpc EXCEPT ![c] = "lock2"]
    /\ UNCHANGED <<uiVars, unpainted, cfgVars, files, running, progress, child, callVars,
                   superVars, readVars, procVars, ckid, kreq, kprog>>

\* lines 670-672: the slot is cleared under the lock
KillClear(c) ==
    /\ cpc[c] = "lock2"
    /\ lockOwner = Free
    /\ child' = None
    /\ cpc' = [cpc EXCEPT ![c] = "reset"]
    /\ UNCHANGED <<uiVars, unpainted, cfgVars, files, running, progress, output_log, lockOwner, callVars,
                   superVars, readVars, procVars, ckid, cres, kreq, kprog>>

\* line 675
KillResetProgress(c) ==
    /\ cpc[c] = "reset"
    /\ progress' = 0
    /\ cpc' = [cpc EXCEPT ![c] = IF cres[c] = "killed" THEN "done" ELSE "nolog"]
    /\ UNCHANGED <<uiVars, unpainted, cfgVars, files, running, output_log, child, lockOwner, callVars,
                   superVars, readVars, procVars, ckid, cres, kreq, kprog>>

\* lines 677-679
KillLogNone(c) ==
    /\ cpc[c] = "nolog"
    /\ output_log' = Push("no_active_process", 0)
    /\ cpc' = [cpc EXCEPT ![c] = "done"]
    /\ UNCHANGED <<uiVars, unpainted, cfgVars, files, running, progress, child, lockOwner, callVars,
                   superVars, readVars, procVars, ckid, cres, kreq, kprog>>

\* ------------------------------------------------------------ specification
CallerStep ==
    \/ StartRejectRunning
    \/ StartRejectInput
    \/ StartRejectOutputDir
    \/ StartAccept
    \/ StartResetProgress
    \/ StartClearLog
    \/ StartLogOutput
    \/ StartClearChild
    \/ Cancel
    \/ \E o \in ProbeOutcomes : Redraw(o)
    \/ FrameEnd
    \/ ClearLog
    \/ \E p \in InputChoices : EditInput(p)
    \/ \E p \in InputChoices : BrowseInput(p)

SuperStep(j) ==
    \/ SuperLogExec(j)
    \/ SuperSpawn(j)
    \/ SuperSpawnFails(j)
    \/ SuperStore(j)
    \/ SuperLock(j)
    \/ SuperWait(j)
    \/ SuperNoChild(j)
    \/ SuperLogOutcome(j)
    \/ SuperClear(j)
    \/ SuperMarkComplete(j)
    \/ SuperSetFull(j)
    \/ SuperRepaint(j)

ReaderStep(j) ==
    ReaderLine(j) \/ ReaderProgress(j) \/ ReaderRepaint(j)

ProcStep(j) ==
    \/ \E line \in StderrLines : ProcEmit(j, line)
    \/ ProcCreateOutput(j)
    \/ \E st \in {"ok", "fail"} : ProcExit(j, st)

KillStep(c) ==
    \/ KillLock(c)
    \/ KillNoChild(c)
    \/ \E res \in {"ok", "err"} : KillChild(c, res)
    \/ KillLogOk(c)
    \/ KillWait(c)
    \/ KillLogErr(c)
    \/ KillClear(c)
    \/ KillResetProgress(c)
    \/ KillLogNone(c)

Next ==
    \/ CallerStep
    \/ \E j \in Jobs : SuperStep(j) \/ ReaderStep(j) \/ ProcStep(j)
    \/ \E c \in Cancels : KillStep(c)

Spec == Init /\ [][Next]_vars

\* the settings widgets of update
SettingsStep ==
    \/ \E f \in FunctionTypes : SelectFunction(f)
    \/ \E f \in AudioFormats : SelectAudioFormat(f)
    \/ \E b \in BOOLEAN : SelectAudioQualityMode(b)

\* The caller thread alone: every frame of update with the calls of run and
\* stop_ffmpeg it makes; the background threads are not scheduled.
NextCaller == CallerStep \/ SettingsStep

SpecCaller == Init /\ [][NextCaller]_vars

\* the program started in a directory that already holds output files
InitBuild ==
    /\ files \in FileStates
    /\ input_path = EmptyPath
    /\ output_path = EmptyPath
    /\ duration = 1
    /\ running = FALSE
    /\ progress = 0
    /\ output_log = <<>>
    /\ child = None
    /\ lockOwner = Free
    /\ upc = "idle"
    /\ ujob = 0
    /\ nStart = 0
    /\ nCancel = 0
    /\ nReject = 0
    /\ nEdit = 0
    /\ tpc = [j \in Jobs |-> "none"]
    /\ jdur = [j \in Jobs |-> 1]
    /\ jout = [j \in Jobs |-> EmptyPath]
    /\ rpc = [j \in Jobs |-> "none"]
    /\ rline = [j \in Jobs |-> NoLine]
    /\ proc = [j \in Jobs |-> "none"]
    /\ reaped = [j \in Jobs |-> FALSE]
    /\ pipe = [j \in Jobs |-> <<>>]
    /\ emitted = 0
    /\ cpc = [c \in Cancels |-> "none"]
    /\ ckid = [c \in Cancels |-> None]
    /\ cres = [c \in Cancels |-> "none"]
    /\ kreq = [c \in Cancels |-> None]
    /\ kprog = [c \in Cancels |-> 0]
    /\ opts = DefaultOpts
    /\ last_command = preview_command(DefaultOpts, EmptyPath, EmptyPath, files)
    /\ nProbe = 0
    /\ nClear = 0
    /\ nSet = 0
    /\ probedSel = FALSE
    /\ unpainted = {}

\* the widgets of the settings panels
ConfigStep ==
    \/ \E q \in AudioQualityChoices : SetAudioQuality(q)
    \/ \E k \in AudioBitrateChoices : SetAudioBitrate(k)
    \/ \E m \in FrameRateModes : SelectFrameRateMode(m)
    \/ \E b \in BOOLEAN : SelectQualityControl(b)
    \/ \E c \in CrfChoices : SetCrf(c)
    \/ \E k \in VideoBitrateChoices : SetVideoBitrate(k)
    \/ \E r \in FrameRateChoices : SetFrameRate(r)
    \/ \E s \in Presets : SelectPreset(s)
    \/ \E f \in OutputFormats : SelectOutputFormat(f)

\* the input and output fields
FieldStep ==
    \/ \E p \in InputChoices : EditInput(p)
    \/ \E p \in InputChoices : BrowseInput(p)
    \/ \E p \in OutputChoices : EditOutput(p)
    \/ \E p \in OutputChoices : BrowseOutput(p)
    \/ \E o \in ProbeOutcomes : Redraw(o)
    \/ FrameEnd

\* the settings and path widgets of update, without run and stop_ffmpeg
NextBuild == FieldStep \/ SettingsStep \/ ConfigStep

SpecBuild == InitBuild /\ [][NextBuild]_vars

\* ------------------------------------------------------------------ claims
Alive == {j \in Jobs : proc[j] = "alive"}
\* a supervising thread is inside wait(), holding the handle lock, on a process
\* that has not exited
WaitingOnLiveProcess ==
    \E j \in Jobs : /\ lockOwner = T(j) /\ tpc[j] = "wait"
                    /\ child # None /\ proc[child] = "alive"
\* this step is a call of run
RunCalled == nStart' # nStart \/ nReject' # nReject
\* no background thread and no call is in progress
Quiescent ==
    /\ upc = "idle"
    /\ \A j \in Jobs : /\ tpc[j] \in {"none", "done", "panicked"}
                      /\ (rpc[j] = "none" \/ ReaderAtEof(j))
    /\ \A c \in Cancels : cpc[c] \in {"none", "done"}
LastLog == output_log[Len(output_log)]

\* C1: at most one external process spawned by the supervisor is alive at a
\* time, over any interleaving of start, cancel and the background threads.
C1_AtMostOneProcessAlive == Cardinality(Alive) <= 1

\* C2: a cancel requested while the process is alive and its handle is stored
\* reaches the handle while the process is alive: the kill thread does not have
\* to wait for the process to exit on its own, that is, it never waits for the
\* handle lock while a supervising thread holds it inside wait() on a live
\* process.
C2_CancelDoesNotWaitForExit ==
    \A c \in Cancels :
        (cpc[c] = "lock" /\ kreq[c] # None /\ child = kreq[c] /\ proc[child] = "alive")
            => ~WaitingOnLiveProcess

\* C3: a failed spawn is caught by the supervising thread: once the thread has
\* ended on a failed spawn (no later start or cancel), running is false and
\* the log holds a line of that job besides the two written before the spawn.
C3_SpawnFailureCaught ==
    \A j \in Jobs :
        (tpc[j] = "panicked" /\ nStart = j /\ nCancel = 0 /\ upc = "idle")
            => /\ ~running
               /\ \E i \in DOMAIN output_log :
                      /\ output_log[i].job = j
                      /\ output_log[i].kind \notin {"outputting_to", "executing"}

\* C4: a start issued while running is true is rejected: no job is accepted,
\* no process is spawned, and running, progress, the handle slot and its lock,
\* the destination path and every task are as before; only the rejection line
\* is appended to the log.
C4_StartWhileRunningRejected ==
    [][(RunCalled /\ running) =>
            /\ nStart' = nStart /\ upc' = "idle"
            /\ running' = running /\ progress' = progress
            /\ child' = child /\ lockOwner' = lockOwner
            /\ output_path' = output_path /\ input_path' = input_path
            /\ proc' = proc /\ tpc' = tpc /\ rpc' = rpc /\ cpc' = cpc
            /\ output_log' = Append(output_log, Entry("already_running", 0))]_vars

\* C4, its case: a start was rejected because running was true, the running
\* job goes on and its process is alive
C4_RejectedWhileProcessAlive ==
    /\ running /\ nReject > 0 /\ Alive # {}
    /\ output_log # <<>> /\ LastLog.kind = "already_running"

\* C5: after a cancel called while the process handle was in the slot, once
\* the kill thread and the job's threads have finished and no other start was
\* made, running is false, the handle slot is empty and progress is 0.
C5_CancelLeavesProgressZero ==
    \A c \in Cancels :
        (cpc[c] = "done" /\ kreq[c] # None /\ nStart = 1 /\ Quiescent)
            => (~running /\ child = None /\ progress = 0)

\* C6: the caller, inside start or cancel, never waits for a lock that a
\* background thread holds across wait() on a live process.
C6_CallerNeverWaitsForExit == ~(upc = "s103" /\ WaitingOnLiveProcess)

\* C7: within one job, from the reset at start until the supervising thread
\* forces the final value, the values written to progress never decrease
\* (stated for behaviours with one start and no cancel, where every write to
\* progress is the job's own, and for the values that are numbers).
C7_ProgressNonDecreasing ==
    [][(/\ nStart = 1 /\ nCancel = 0 /\ tpc[1] \notin {"repaint", "done"}
        /\ progress # NaN /\ progress' # NaN)
          => progress' >= progress]_vars

\* C8: once the supervising thread of a job has set running = false and
\* progress = 1.0, the reader of that job appends no further log line and
\* writes no further progress value.
C8_ReaderSilentAfterCompletion ==
    [][\A j \in Jobs : tpc[j] = "done" => ~(ReaderLine(j) \/ ReaderProgress(j))]_vars

\* C9: every accepted start is eventually followed by a state in which running
\* is false and the handle slot is empty: when every thread has come to rest
\* after a start, with no further call by the caller, running is false and the
\* slot is empty.
C9_RestsNotRunning ==
    (Quiescent /\ nStart > 0) => (~running /\ child = None)

\* C10: a cancel called with no process handle in the slot, whose kill thread
\* finds none either, is a no-op apart from logging: when progress still has
\* the value it had at the call, the kill thread leaves it so.
C10_CancelWithoutHandleKeepsProgress ==
    [][\A c \in Cancels :
          (/\ kreq[c] = None /\ cres[c] = "nochild" /\ progress = kprog[c]
           /\ KillResetProgress(c))
              => progress' = progress]_vars

\* ---------------------------------------------------------- claims C11-C20
IsPrefix(a, b) == Len(a) <= Len(b) /\ SubSeq(b, 1, Len(a)) = a
\* a token after "time=" that is not three numeric segments
Malformed(tok) == Len(tok) # 3 \/ \E i \in DOMAIN tok : ~tok[i].ok
HasFlag(v, f) == \E i \in DOMAIN v : v[i] = f
\* this step appends exactly the line e to the log
Appends(e) == output_log' = Append(output_log, e)

\* C11: a start rejected for a user-input error (no input, input missing,
\* destination directory missing) appends one line to the log and changes
\* nothing else: running, progress, the handle slot, the input and destination
\* paths, the duration, the settings and every task are as before.
C11_InputRejectChangesOnlyLog ==
    [][(StartRejectInput \/ StartRejectOutputDir) =>
            /\ Len(output_log') = Len(output_log) + 1 /\ IsPrefix(output_log, output_log')
            /\ running' = running /\ progress' = progress /\ child' = child
            /\ input_path' = input_path /\ output_path' = output_path
            /\ duration' = duration /\ opts' = opts
            /\ proc' = proc /\ tpc' = tpc /\ rpc' = rpc /\ cpc' = cpc]_vars

\* C12: in every reachable state progress is a value in [0,1].
C12_ProgressInUnitInterval == progress \in 0..Full

\* C13: while running is true every step leaves the log an extension of what
\* it was, except the clearing step of an accepted start.
C13_LogOnlyGrowsWhileRunning ==
    [][running => (IsPrefix(output_log, output_log') \/ StartClearLog)]_vars

\* C14: on every accepted start, when the supervising thread is about to spawn
\* the process, running is true, progress is 0 and the handle slot is empty
\* (stated for behaviours without a cancel; the log is emptied by the step
\* StartClearLog of the same call).
C14_StartResetsBeforeSpawn ==
    \A j \in Jobs :
        (tpc[j] \in {"exec", "spawn"} /\ nCancel = 0)
            => (running /\ progress = 0 /\ child = None)

C16_MalformedTimeKeepsProgress ==
    [][\A j \in Jobs :
          (ReaderProgress(j) /\ Malformed(TokenOf(rline[j]))) => progress' = progress]_vars

\* C17: every repaint request follows the write it announces: the reader
\* requests a repaint only after its write of progress, the supervising thread
\* requests the final repaint only after its writes of running and progress.
C17_WriteBeforeRepaint ==
    [][\A j \in Jobs :
          /\ ReaderRepaint(j) => <<"reader", j>> \in unpainted
          /\ SuperRepaint(j) => {<<"running", j>>, <<"progress", j>>} \subseteq unpainted]_vars

\* C17, its case: a job's reader has handled a line with "time=" and requested
\* its repaint, and the supervising thread has requested the final repaint
C17_RepaintsRequested ==
    \E j \in Jobs :
        /\ tpc[j] = "done" /\ rpc[j] = "read" /\ ~running /\ progress = Full
        /\ \E i \in DOMAIN output_log :
               /\ output_log[i].kind = "stderr" /\ output_log[i].job = j
               /\ output_log[i].text.time

\* C18: the probe runs once for each newly selected input file: it never runs
\* when it has already run since the input was last selected, and every job
\* captures a duration that was probed for its own selection.
C18_ProbeOncePerSelection ==
    [][/\ nProbe' # nProbe => ~probedSel
       /\ StartLogOutput => probedSel]_vars

\* C19: the duration field and the duration every job has captured are
\* strictly positive in every reachable state; the field is 1.0 before any
\* probe and after a probe that did not parse a duration.
C19_DurationPositive ==
    /\ [](duration > 0 /\ \A j \in Jobs : jdur[j] > 0)
    /\ [](nProbe = 0 => duration = 1)
    /\ [][\A o \in ProbeOutcomes : (Redraw(o) /\ o.dur # "ok") => duration' = 1]_vars

\* C19, its case: a job has captured the fallback duration 1.0 after a probe
C19_FallbackCaptured ==
    \E j \in Jobs : tpc[j] = "exec" /\ nProbe > 0 /\ duration = 1 /\ jdur[j] = 1

\* C20: for the two functions with an audio stream, every audio format and
\* both VBR/CBR settings, the built vector never holds both a flag carrying
\* the audio quality level (-q:a or -compression_level) and -b:a.
C20_NoQualityWithBitrate ==
    LET v == build_command(opts, input_path, output_path, files)
    IN show_audio_options =>
           ~(/\ HasFlag(v, "-q:a") \/ HasFlag(v, "-compression_level")
             /\ HasFlag(v, "-b:a"))

\* ------------------------------------------- claims about the built command
\* the number of occurrences of a token, a flag directly followed by a value,
\* the position of the first occurrence of a token
Count(v, f) == Cardinality({i \in DOMAIN v : v[i] = f})
NextTo(v, f, val) == \E i \in DOMAIN v : v[i] = f /\ i < Len(v) /\ v[i + 1] = val
IndexOf(v, f) == CHOOSE i \in DOMAIN v : v[i] = f /\ \A k \in DOMAIN v : v[k] = f => i <= k
\* the vector built for the settings o and the fields of the current state, and
\* the output token it ends with
Built(o) == build_command(o, input_path, output_path, files)
OutputToken(o) ==
    PathStr(IF output_path = EmptyPath THEN default_output(o, input_path, files)
            ELSE output_path)
\* the preview command is the one of the current settings and fields
PreviewCurrent == last_command = Join(Built(opts))
\* input.mov in the working directory
InputMov == [dir |-> "", stem |-> <<"input">>, ext |-> "mov"]

\* C21: for compress-video the built vector holds exactly one video-quality
\* flag: -crf <crf> and no -b:v when the quality mode is CRF and the frame-rate
\* mode is constant, -b:v <bitrate>k and no -crf in every other combination.
C21_OneVideoQualityFlag ==
    \A m \in FrameRateModes, u \in BOOLEAN :
        LET o == [opts EXCEPT !.selected_function = "CompressVideo",
                              !.framerate_mode = m, !.use_crf = u]
            v == Built(o)
        IN IF u /\ m = "CFR"
           THEN /\ Count(v, "-crf") = 1 /\ NextTo(v, "-crf", ToString(o.crf))
                /\ ~HasFlag(v, "-b:v")
           ELSE /\ Count(v, "-b:v") = 1
                /\ NextTo(v, "-b:v", ToString(o.video_bitrate) \o "k")
                /\ ~HasFlag(v, "-crf")

\* C21, its case: the preview was built for compress-video in variable
\* frame-rate mode with a video bitrate picked by the user
C21_VfrBitrateBuilt ==
    /\ opts.selected_function = "CompressVideo" /\ opts.framerate_mode = "VFR"
    /\ opts.video_bitrate = 1000
    /\ PreviewCurrent /\ NextTo(Built(opts), "-b:v", "1000k")

\* the text of a frame rate with three decimal places
ThreeDecimals(r) ==
    CASE r = 23976 -> "23.976" [] r = 25000 -> "25.000"
      [] r = 30000 -> "30.000" [] r = 60000 -> "60.000"

\* C22: for compress-video in variable frame-rate mode the built vector holds
\* -vsync vfr and no -r; in constant mode it holds -r followed by the frame
\* rate with three decimal places and no -vsync.
C22_FrameRateFlags ==
    \A m \in FrameRateModes, r \in FrameRateChoices \cup {opts.frame_rate} :
        LET o == [opts EXCEPT !.selected_function = "CompressVideo",
                              !.framerate_mode = m, !.frame_rate = r]
            v == Built(o)
        IN IF m = "VFR"
           THEN NextTo(v, "-vsync", "vfr") /\ ~HasFlag(v, "-r")
           ELSE /\ Count(v, "-r") = 1 /\ NextTo(v, "-r", ThreeDecimals(r))
                /\ ~HasFlag(v, "-vsync")

\* C22, its case: the preview was built for compress-video in constant mode with
\* the frame rate 23.976
C22_CfrRateBuilt ==
    /\ opts.selected_function = "CompressVideo" /\ opts.framerate_mode = "CFR"
    /\ opts.frame_rate = 23976
    /\ PreviewCurrent /\ NextTo(Built(opts), "-r", "23.976")

\* the tokens of v from the first a up to, not including, the first b
Between(v, a, b) == SubSeq(v, IndexOf(v, a), IndexOf(v, b) - 1)

\* C23: with the selected audio format and quality settings, the tokens
\* compress-video emits from -c:a up to -c:s are those extract-audio emits from
\* -c:a up to -y, followed by -strict experimental for FLAC.
C23_AudioBlockMirrorsExtract ==
    LET c == Built([opts EXCEPT !.selected_function = "CompressVideo"])
        e == Built([opts EXCEPT !.selected_function = "ExtractAudio"])
    IN Between(c, "-c:a", "-c:s") =
           Between(e, "-c:a", "-y")
           \o (IF opts.audio_format = "FLAC" THEN <<"-strict", "experimental">> ELSE <<>>)

\* the codec block of extract-audio
CodecBlock(o) ==
    CASE o.audio_format = "MP3" /\ o.use_audio_quality ->
            <<"-c:a", "libmp3lame", "-q:a", ToString(o.audio_quality)>>
      [] o.audio_format = "MP3" /\ ~o.use_audio_quality ->
            <<"-c:a", "libmp3lame", "-b:a", ToString(o.audio_bitrate) \o "k">>
      [] o.audio_format = "OPUS" ->
            <<"-c:a", "libopus", "-b:a", ToString(o.audio_bitrate) \o "k",
              "-strict", "experimental">>
      [] o.audio_format = "AAC" ->
            <<"-c:a", "aac", "-b:a", ToString(o.audio_bitrate) \o "k",
              "-strict", "experimental">>
      [] o.audio_format = "FLAC" ->
            <<"-c:a", "flac", "-compression_level", ToString(o.audio_quality)>>
      [] o.audio_format = "WAV" ->
            <<"-c:a", "pcm_s16le", "-ar", "44100">>

\* C24: for extract-audio the built vector is exactly -i <input>, -vn, -sn,
\* -map 0:a, the codec block of the selected format, -y <output>; MP3, VBR,
\* quality 4 on input.mov gives
\* -i input.mov -vn -sn -map 0:a -c:a libmp3lame -q:a 4 -y input-Audio.mp3.
C24_ExtractAudioVector ==
    /\ \A f \in AudioFormats, b \in BOOLEAN :
           LET o == [opts EXCEPT !.selected_function = "ExtractAudio",
                                 !.audio_format = f, !.use_audio_quality = b]
           IN Built(o) = <<"-i", PathStr(input_path), "-vn", "-sn", "-map", "0:a">>
                         \o CodecBlock(o) \o <<"-y", OutputToken(o)>>
    /\ Join(build_command([opts EXCEPT !.selected_function = "ExtractAudio",
                                       !.audio_format = "MP3",
                                       !.use_audio_quality = TRUE,
                                       !.audio_quality = 4],
                          InputMov, EmptyPath, files))
         = "-i input.mov -vn -sn -map 0:a -c:a libmp3lame -q:a 4 -y input-Audio.mp3"

\* C24, its case: the preview was built for extract-audio to FLAC from a
\* selected input, with a compression level picked by the user
C24_FlacExtractBuilt ==
    /\ opts.selected_function = "ExtractAudio" /\ opts.audio_format = "FLAC"
    /\ opts.audio_quality = 9
    /\ input_path = AbsInput
    /\ PreviewCurrent /\ NextTo(Built(opts), "-compression_level", "9")

\* the flags of the built vectors: those that stand alone and those that take
\* a value
BareFlags == {"-vn", "-sn"}
ValueFlags ==
    {"-i", "-map", "-c:a", "-q:a", "-b:a", "-strict", "-compression_level", "-ar",
     "-c:v", "-crf", "-b:v", "-preset", "-r", "-vsync", "-c:s", "-c", "-y"}
\* v is a sequence of bare flags and of value-taking flags each directly
\* followed by a token that is not a flag
RECURSIVE FlagsHaveValues(_)
FlagsHaveValues(v) ==
    IF v = <<>> THEN TRUE
    ELSE IF Head(v) \in BareFlags THEN FlagsHaveValues(Tail(v))
    ELSE /\ Head(v) \in ValueFlags
         /\ Len(v) >= 2
         /\ v[2] \notin BareFlags \cup ValueFlags
         /\ FlagsHaveValues(Tail(Tail(v)))

\* C25: for the three functions and every audio format the built vector
\* begins with -i <input>, ends with -y <output>, and every value-taking flag
\* is directly followed by its value.
C25_InputFirstOutputLast ==
    \A fn \in FunctionTypes, f \in AudioFormats :
        LET o == [opts EXCEPT !.selected_function = fn, !.audio_format = f]
            v == Built(o)
        IN /\ Len(v) >= 4
           /\ v[1] = "-i" /\ v[2] = PathStr(input_path)
           /\ v[Len(v) - 1] = "-y" /\ v[Len(v)] = OutputToken(o)
           /\ FlagsHaveValues(v)

\* C25, its case: the preview was built for compress-video with WAV audio and a
\* destination in /v
C25_CompressWavBuilt ==
    /\ opts.selected_function = "CompressVideo" /\ opts.audio_format = "WAV"
    /\ output_path.dir = "/v" /\ output_path.stem # <<>>
    /\ PreviewCurrent

\* the settings o with one quality field changed
QualityVariants(o) ==
    {[o EXCEPT !.audio_format = f] : f \in AudioFormats}
    \cup {[o EXCEPT !.crf = c] : c \in CrfChoices}
    \cup {[o EXCEPT !.video_bitrate = k] : k \in VideoBitrateChoices}
    \cup {[o EXCEPT !.audio_bitrate = k] : k \in AudioBitrateChoices}
    \cup {[o EXCEPT !.audio_quality = q] : q \in AudioQualityChoices}
    \cup {[o EXCEPT !.framerate_mode = m] : m \in FrameRateModes}
    \cup {[o EXCEPT !.frame_rate = r] : r \in FrameRateChoices}
    \cup {[o EXCEPT !.encoding_preset = x] : x \in Presets}
    \cup {[o EXCEPT !.use_crf = b] : b \in BOOLEAN}
    \cup {[o EXCEPT !.use_audio_quality = b] : b \in BOOLEAN}

\* C26: for remux the built vector is exactly -i <input> -map 0 -c copy -y
\* <output>, whatever the values of the quality fields.
C26_RemuxVector ==
    LET o == [opts EXCEPT !.selected_function = "ConvertToMp4"]
    IN \A q \in QualityVariants(o) \cup {o} :
           Built(q) = <<"-i", PathStr(input_path), "-map", "0", "-c", "copy",
                        "-y", OutputToken(o)>>

\* C26, its case: the preview was built for remux after the user had changed a
\* quality field
C26_RemuxAfterQualityChange ==
    /\ opts.selected_function = "ConvertToMp4"
    /\ opts.encoding_preset # "medium" \/ opts.crf # 28 \/ opts.framerate_mode = "VFR"
    /\ input_path # EmptyPath
    /\ PreviewCurrent

\* C27: the built vector is a function of the configuration alone: it is the
\* same for every state of the filesystem.
C27_BuildIgnoresFilesystem ==
    \A fs \in FileStates :
        build_command(opts, input_path, output_path, fs) = Built(opts)

\* the suffix and extension of the default output
DefaultName(o) ==
    CASE o.selected_function = "ExtractAudio" ->
            <<"-Audio",
              CASE o.audio_format = "MP3" -> "mp3" [] o.audio_format = "WAV" -> "wav"
                [] o.audio_format = "FLAC" -> "flac" [] o.audio_format = "AAC" -> "m4a"
                [] o.audio_format = "OPUS" -> "opus">>
      [] o.selected_function = "CompressVideo" ->
            <<"-Compressed", IF o.output_format = "Mp4" THEN "mp4" ELSE "mkv">>
      [] o.selected_function = "ConvertToMp4" ->
            <<"-Converted", IF o.output_format = "Mp4" THEN "mp4" ELSE "mkv">>

\* C28: the default output path is the input's directory and stem with the
\* suffix and extension of the selected function and format, passed through
\* unique_path; it is empty when the input path has no file stem.
C28_DefaultOutputName ==
    /\ \A inp \in InputChoices \cup {RootDir, InputMov, Clip(Counter(2))} :
       \A o \in {[opts EXCEPT !.selected_function = "ExtractAudio", !.audio_format = f] :
                    f \in AudioFormats}
                \cup {[opts EXCEPT !.selected_function = fn, !.output_format = c] :
                         fn \in {"CompressVideo", "ConvertToMp4"}, c \in OutputFormats} :
           LET d == default_output(o, inp, files)
           IN IF inp.stem = <<>> THEN d = EmptyPath /\ PathStr(d) = ""
              ELSE d = unique_path([dir |-> inp.dir,
                                    stem |-> inp.stem \o <<DefaultName(o)[1]>>,
                                    ext |-> DefaultName(o)[2]], files)
    /\ PathStr(default_output([opts EXCEPT !.selected_function = "CompressVideo",
                                           !.output_format = "Mkv"],
                              AbsInput, files)) = "/v/in-Compressed.mkv"

\* C28, its case: the default output of the picked input exists, and the
\* output field holds the numbered default
C28_DefaultMadeUnique ==
    /\ input_path = RelInput /\ Exists(InAudio, files)
    /\ opts.selected_function = "ExtractAudio" /\ opts.audio_format = "MP3"
    /\ output_path = [InAudio EXCEPT !.stem = InAudio.stem \o Counter(1)]
    /\ PathStr(output_path) = "in-Audio(1).mp3"

\* the paths unique_path is applied to
PathSamples ==
    OutputChoices \cup {EmptyPath, InAudio, Clip(Counter(1)),
                        Clip(Counter(1) \o <<" ">> \o Counter(2)),
                        Clip(Counter(2) \o <<"x">>), Clip(<<"(", ")">>)}

\* C29: unique_path applied to the output field returns a path that does not
\* exist, and returns the field unchanged when it does not exist.
C29_UniquePathFresh ==
    LET r == unique_path(output_path, files)
    IN /\ r # Panicked
       /\ ~Exists(r, files)
       /\ ~Exists(output_path, files) => r = output_path

\* a stem with two consecutive parenthesized counters
TwoCounters(stem) ==
    \E i \in DOMAIN stem :
        /\ i + 5 <= Len(stem)
        /\ stem[i] = "(" /\ stem[i + 1] \in DigitRuns /\ stem[i + 2] = ")"
        /\ stem[i + 3] = "(" /\ stem[i + 4] \in DigitRuns /\ stem[i + 5] = ")"

\* C30: when clip.mp4 exists and clip(1).mp4 does not, unique_path applied to
\* clip(2).mp4 returns clip(1).mp4; unique_path never returns a name with two
\* consecutive parenthesized counters (for an argument that has none).
C30_CounterStripped ==
    /\ (Exists(Clip(<<>>), files) /\ ~Exists(Clip(Counter(1)), files))
           => unique_path(Clip(Counter(2)), files) = Clip(Counter(1))
    /\ \A p \in PathSamples :
           ~TwoCounters(p.stem) => ~TwoCounters(unique_path(p, files).stem)

\* ---------------------------------------------------------- claims C31-C38
\* C31: unique_path is idempotent on its own output: with the same files,
\* unique_path(unique_path(p)) = unique_path(p) for every path p (for a path
\* on which the call panics, so does the repeated call).
C31_UniquePathIdempotent ==
    \A p \in PathSamples \cup {output_path} :
        LET r == unique_path(p, files)
        IN unique_path(r, files) = r

\* C31, its case: the picked output existed, the field holds the numbered path
\* unique_path returned for it
C31_NumberedOutputKept ==
    /\ Exists(Clip(Counter(2)), files) /\ Exists(Clip(Counter(1)), files)
    /\ output_path = Clip(Counter(3))
    /\ unique_path(Clip(Counter(2)), files) = output_path

\* every segment of the token is numeric
Numeric(tok) == \A i \in DOMAIN tok : tok[i].ok
\* H * 3600 + M * 60 + S, NaN when a segment is NaN
Hms(tok) ==
    IF \E i \in DOMAIN tok : tok[i].val = NaN THEN NaN
    ELSE tok[1].val * 3600 + tok[2].val * 60 + tok[3].val

\* C32: parse_timecode of a token with exactly three numeric segments H, M, S
\* is H * 3600 + M * 60 + S ("00:01:30.50" gives 90.5), and of a token with
\* any other number of segments is 0.0.
C32_TimecodeValue ==
    /\ \A j \in Jobs :
           LET tok == TokenOf(rline[j])
           IN /\ (Len(tok) = 3 /\ Numeric(tok)) => parse_timecode(tok) = Hms(tok)
              /\ Len(tok) # 3 => parse_timecode(tok) = 0
    /\ parse_timecode(<<Seg(0), Seg(100), Seg(3050)>>) = 9050
    /\ parse_timecode(<<Seg(100), Seg(0), Seg(0)>>) = 360000
    /\ \A tok \in {<<>>, <<Seg(3050)>>, <<Seg(100), Seg(3050)>>,
                   <<Seg(0), Seg(0), Seg(100), Seg(3050)>>} :
           parse_timecode(tok) = 0

\* C32, its case: a reader has parsed "time=00:00:02.00" and written the
\* progress it gives
C32_TimecodeParsed ==
    \E j \in Jobs :
        /\ rpc[j] = "repaint"
        /\ \E i \in DOMAIN output_log :
               output_log[i] = [kind |-> "stderr", job |-> j, text |-> TimeLine(2)]
        /\ parse_timecode(TokenOf(TimeLine(2))) = 200
        /\ progress = ProgressOf(TimeLine(2), jdur[j])

\* the stem ends with a parenthesized, non-empty group of digits
EndsWithCounter(stem) ==
    /\ Len(stem) >= 3
    /\ stem[Len(stem) - 2] = "(" /\ stem[Len(stem) - 1] \in DigitRuns
    /\ stem[Len(stem)] = ")"
\* the stem without that group and the blanks before it
BaseOf(stem) ==
    IF EndsWithCounter(stem) THEN Trim(SubSeq(stem, 1, Len(stem) - 3)) ELSE stem

\* C33: for an argument that exists, unique_path strips the stem's suffix only
\* when the stem ends with a parenthesized, non-empty group of digits, and
\* returns base(k) with the extension for the smallest k >= 1 whose candidate
\* does not exist.
C33_StripsTrailingCounterOnly ==
    \A p \in PathSamples :
        (Exists(p, files) /\ p.stem # <<>>) =>
            \E k \in 1..4 :
                /\ unique_path(p, files) = Numbered(p, BaseOf(p.stem), k)
                /\ \A i \in 1..(k - 1) : Exists(Numbered(p, BaseOf(p.stem), i), files)

\* a widget changes a field read by build_command in the step
ConfigChanged ==
    /\ nSet' # nSet \/ nEdit' # nEdit
    /\ opts' # opts \/ input_path' # input_path \/ output_path' # output_path

\* C34: after every event of the window that changes a configuration field
\* read by build_command (function, container, audio format, VBR or CBR, audio
\* quality, bitrates, CRF, frame-rate mode, frame rate, preset, paths), the
\* stored preview is build_command of the current configuration joined by
\* spaces.
C34_PreviewFollowsConfig ==
    [][ConfigChanged =>
           last_command' = Join(build_command(opts', input_path', output_path', files'))]_vars

\* C35: in every configuration reachable from the defaults through the
\* widgets, frame-rate mode VFR implies that use_crf is false; use_crf becomes
\* true only while the frame-rate mode is CFR.
C35_VfrForcesBitrate ==
    /\ [](opts.framerate_mode = "VFR" => ~opts.use_crf)
    /\ [][(~opts.use_crf /\ opts'.use_crf) =>
              (opts.framerate_mode = "CFR" /\ opts'.framerate_mode = "CFR")]_vars

\* C35, its case: CompressVideo was selected and then VFR, with CRF selected
\* until then
C35_VfrSelected ==
    /\ opts.selected_function = "CompressVideo" /\ nSet = 2
    /\ opts.framerate_mode = "VFR" /\ ~opts.use_crf

\* the second start has been accepted and its call of run has returned
NewJobStarted == nStart = 2 /\ ujob = 2 /\ upc \in {"idle", "frame"}
\* a step of a background thread of job 1: its supervising thread, its reader,
\* or a kill thread of a cancel called while job 1's handle was in the slot
OldTaskStep ==
    \/ SuperStep(1)
    \/ ReaderStep(1)
    \/ \E c \in Cancels : kreq[c] = 1 /\ KillStep(c)

\* C36: once a new start has been accepted, no background thread of an earlier
\* job (its supervising thread, its reader, a kill thread requested against
\* it) writes running, progress, the log or the handle slot, or ends the new
\* job's process.
C36_OldTasksLeaveNewJob ==
    [][(NewJobStarted /\ OldTaskStep) =>
           /\ running' = running /\ progress' = progress
           /\ output_log' = output_log /\ child' = child
           /\ proc'[2] = proc[2]]_vars

\* the one cancel was called after the one start, with no handle in the slot
\* yet (the log still holds the line stop_ffmpeg wrote, so the call came
\* after the start emptied the log), and its kill thread has finished
CancelledBeforeStore ==
    /\ nStart = 1 /\ nCancel = 1 /\ upc \in {"idle", "frame"}
    /\ kreq[1] = None /\ cpc[1] = "done"
    /\ \E i \in DOMAIN output_log : output_log[i].kind = "stopping"

\* C37: a cancel requested after a start was accepted and before the
\* supervising thread has stored the process handle still stops that job:
\* after the kill thread has finished, no process of the job is alive while
\* running is false.
C37_EarlyCancelStopsJob ==
    (CancelledBeforeStore /\ ~running) => proc[1] # "alive"

\* run, line 91: the argument vector the supervising thread hands to the
\* process, built before update_command is called
cmd_args == build_command(opts, input_path, output_path, files)

\* C38: for every accepted start, the argument vector handed to the process
\* is build_command of the configuration left when run returns (so its last
\* token is the destination field), and the preview recorded by run is the
\* command executed.
C38_ExecutedIsPreviewed ==
    [][StartLogOutput =>
           /\ cmd_args = build_command(opts', input_path', output_path', files')
           /\ last_command' = Join(cmd_args)]_vars

====
